---- MODULE Spec2Model ----
(***************************************************************************)
(* ExpectationConfigurationBuilder                                         *)
(* (great_expectations/rule_based_profiler/expectation_configuration_      *)
(* builder/expectation_configuration_builder.py):                          *)
(* the constructor, the two-phase build_expectation_configuration          *)
(* protocol (dependency resolution, then the construction step) and the    *)
(* collaborators it drives (validation ParameterBuilders, the shared       *)
(* ParameterContainer, data-source propagation, serialization).            *)
(***************************************************************************)
EXTENDS Integers, Sequences, FiniteSets, TLC

VARIABLES
    builder,      \* the ExpectationConfigurationBuilder instance (or none yet)
    deps,         \* the ParameterBuilder instances made by the constructor
    containers,   \* the ParameterContainer objects, by Domain and parameter name
    frame,        \* one activation of build_expectation_configuration per pass
    serialized,   \* the last output of the builder's serialization
    calls         \* number of build_expectation_configuration calls started

vars == <<builder, deps, containers, frame, serialized, calls>>

-----------------------------------------------------------------------------
(* Bounds of the model *)

MaxDeps == 2
MaxCalls == 2

-----------------------------------------------------------------------------
(* Values *)

None == "None"
Absent == "<absent>"
DefaultValue == "<default>"

Passes == {"pass_1", "pass_2"}
\* A single-threaded caller has one activation at a time.
MainPass == "pass_1"
\* variables and parameters, both optional: omitted, or both supplied.
OptionalArgs == {<<None, None>>, <<"variables_1", "parameters_1">>}
Containers == {"container_1", "container_2"}
Domains == {"domain_D", "domain_E"}
Keys == {"min_value", "max_value"}

\* The classes a caller can try to instantiate and call.
\*   Abstract:   supplies no _build_expectation_configuration override
\*   Concrete:   its override reads min_value and max_value for the Domain
\*   Delegating: its override returns super()._build_expectation_configuration(...)
Classes == {"Abstract", "Concrete", "Delegating"}

\* The test ParameterBuilders (the computation is outside this core).
\*   writer:  writes min_value = 0 and max_value = 100
\*   reader:  reads min_value (default when absent), writes it to max_value
\*   failing: raises
DepKinds == {"writer", "reader", "failing"}

ExpectationTypes == {"expect_column_values_to_be_between"}
BatchLists == {None, "batch_list_A"}
BatchRequests == {None, "batch_request_A"}
DataContexts == {None, "data_context_A"}

\* Names a caller can pass as extra keyword arguments: an ordinary
\* assertion-specific argument, the name of the private slot behind the
\* expectation_type property, and the name of a property that has no setter.
KwargNames == {"mostly", "_expectation_type", "validation_parameter_builders"}
NotGiven == "<not given>"
KwargValue(k) == IF k = "mostly" THEN "0.95"
                 ELSE IF k = "_expectation_type" THEN "expect_something_else"
                 ELSE "injected_list"

ExtraNames == {"mostly"}

-----------------------------------------------------------------------------
(* Optional lists: Python's None is kept apart from the empty list *)

NoneList == [isNone |-> TRUE, items |-> <<>>]
ListOf(s) == [isNone |-> FALSE, items |-> s]

\* Python truth value of an Optional[List]: None and [] are both falsy.
Truthy(l) == ~l.isNone /\ Len(l.items) > 0

SeqsUpTo(S, n) == UNION {[1..k -> S] : k \in 0..n}

\* validation_parameter_builder_configs a caller may pass: absent, or a list.
ConfigLists == {NoneList} \cup {ListOf(s) : s \in SeqsUpTo(DepKinds, MaxDeps)}

-----------------------------------------------------------------------------
(* ParameterBuilder instances *)

OwnBatchList(kind) == IF kind = "failing" THEN "batch_list_own" ELSE None
OwnBatchRequest(kind) == IF kind = "reader" THEN "batch_request_own" ELSE None

\* init_rule_parameter_builders: an absent descriptor list gives an absent
\* instance list; otherwise one live instance per descriptor, in order.
init_rule_parameter_builders(configs) ==
    IF configs.isNone THEN <<>>
    ELSE [i \in 1..Len(configs.items) |->
            [kind          |-> configs.items[i],
             batch_list    |-> OwnBatchList(configs.items[i]),
             batch_request |-> OwnBatchRequest(configs.items[i])]]

-----------------------------------------------------------------------------
(* The constructor *)

NoKwargs == [k \in KwargNames |-> NotGiven]
AllKwargs == {[k \in KwargNames |-> IF k \in given THEN KwargValue(k) ELSE NotGiven] :
       given \in SUBSET KwargNames}
PlainKwargs == {kw \in AllKwargs :
                  \A k \in KwargNames : kw[k] # NotGiven => k \in ExtraNames}

NoBuilder ==
    [state |-> "unconstructed", cls |-> None, error |-> None,
     expectation_type |-> None, validation_parameter_builders |-> NoneList,
     batch_list |-> None, batch_request |-> None, data_context |-> None,
     extras |-> [k \in ExtraNames |-> Absent],
     given_expectation_type |-> None, given_configs |-> NoneList,
     given_kwargs |-> NoKwargs]

\* class ExpectationConfigurationBuilder(Builder, ABC) with an @abstractmethod:
\* a class that overrides no abstract method cannot be instantiated.
CanInstantiate(cls) == cls # "Abstract"

\* Properties of the class that have a getter and no setter.
ReadOnlyProperties == {"expectation_type", "validation_parameter_builders"}

\* setattr(self, k, v)
setattrWrongValue(obj, k, v) ==
    IF k \in ReadOnlyProperties THEN [obj EXCEPT !.error = "AttributeError"]
    ELSE IF k = "_expectation_type" THEN [obj EXCEPT !.expectation_type = v]
    ELSE [obj EXCEPT !.extras[k] = DefaultValue]

setattr(obj, k, v) ==
    IF k \in ReadOnlyProperties THEN [obj EXCEPT !.error = "AttributeError"]
    ELSE IF k = "_expectation_type" THEN [obj EXCEPT !.expectation_type = v]
    ELSE [obj EXCEPT !.extras[k] = v]

\* for k, v in kwargs.items(): setattr(self, k, v)
\* (the names are distinct and each touches its own slot, so the outcome does
\* not depend on the order of the items; the first failing setattr raises)
RECURSIVE SetKwargs(_, _, _)
SetKwargs(obj, kw, todo) ==
    IF todo = {} \/ obj.error # None THEN obj
    ELSE LET k == CHOOSE x \in todo : TRUE
         IN  SetKwargs(setattr(obj, k, kw[k]), kw, todo \ {k})

\* getattr(self, k), for the names the model uses
getattr(obj, k) ==
    IF k \in {"expectation_type", "_expectation_type"} THEN obj.expectation_type
    ELSE IF k \in ExtraNames THEN obj.extras[k]
    ELSE Absent

\* The read-only accessors (properties) of lines 134-140
expectation_type(b) == b.expectation_type

validation_parameter_builders(b) == b.validation_parameter_builders

\* Builder.__init__ and the assignments of lines 60-65
InitFields(cls, et, cfgs, bl, br, dc, kw) ==
    [NoBuilder EXCEPT
        !.cls = cls,
        !.expectation_type = et,
        !.validation_parameter_builders =
            IF cfgs.isNone THEN NoneList
            ELSE ListOf([i \in 1..Len(cfgs.items) |-> i]),
        !.batch_list = bl, !.batch_request = br, !.data_context = dc,
        !.given_expectation_type = et, !.given_configs = cfgs,
        !.given_kwargs = kw]

\* ExpectationConfigurationBuilder.__init__ (a call of the class)
New(cls, et, cfgs, bl, br, dc, kw) ==
    /\ builder.state = "unconstructed"
    /\ IF ~CanInstantiate(cls)
       THEN /\ builder' = [NoBuilder EXCEPT !.state = "init_failed", !.cls = cls,
                                            !.error = "TypeError"]
            /\ deps' = deps
       ELSE LET obj == SetKwargs(InitFields(cls, et, cfgs, bl, br, dc, kw), kw,
                                 {k \in KwargNames : kw[k] # NotGiven})
            IN  IF obj.error # None
                THEN /\ builder' = [NoBuilder EXCEPT !.state = "init_failed",
                                        !.cls = cls, !.error = obj.error,
                                        !.given_kwargs = kw]
                     /\ deps' = deps
                ELSE /\ builder' = [obj EXCEPT !.state = "constructed"]
                     /\ deps' = init_rule_parameter_builders(cfgs)
    /\ UNCHANGED <<containers, frame, serialized, calls>>

-----------------------------------------------------------------------------
(* Data-source propagation and parameter computation (collaborators) *)

\* set_batch_list_or_batch_request_on_builder(builder, batch_list,
\* batch_request, force_batch_data): sets the target's data source (the batch
\* list takes precedence, otherwise the batch request) unless the target has
\* its own data configured and the override is not forced.
HasOwnData(b) == b.batch_list # None \/ b.batch_request # None

set_batch_list_or_batch_request_on_builder(b, batch_list, batch_request, force) ==
    IF force \/ ~HasOwnData(b)
    THEN IF batch_list # None
         THEN [b EXCEPT !.batch_list = batch_list, !.batch_request = None]
         ELSE [b EXCEPT !.batch_list = None, !.batch_request = batch_request]
    ELSE b

\* The data source a builder computes from: its batch list, else its request.
EffectiveSource(b) ==
    IF b.batch_list # None THEN <<"batch_list", b.batch_list>>
    ELSE IF b.batch_request # None THEN <<"batch_request", b.batch_request>>
    ELSE <<"none", None>>

EmptyCell == [k \in Keys |-> Absent]
EmptyContainers == [c \in Containers |-> [d \in Domains |-> EmptyCell]]

\* ParameterBuilder.build_parameters of the test builders on the entries of one
\* container for one Domain: what it read, what it left, whether it raised.
build_parameters(kind, cell) ==
    IF kind = "writer"
    THEN [raised |-> FALSE, seen |-> None,
          cell |-> [cell EXCEPT !["min_value"] = "0", !["max_value"] = "100"]]
    ELSE IF kind = "reader"
    THEN LET got == IF cell["min_value"] = Absent THEN DefaultValue
                    ELSE cell["min_value"]
         IN  [raised |-> FALSE, seen |-> got,
              cell |-> [cell EXCEPT !["max_value"] = got]]
    ELSE [raised |-> TRUE, seen |-> None, cell |-> cell]

-----------------------------------------------------------------------------
(* Activations of build_expectation_configuration *)

NoError == <<"none", 0>>
NoResult == [kind |-> "<no result>", expectation_type |-> None,
             min_value |-> Absent, max_value |-> Absent, mostly |-> Absent]
NoneResult == [NoResult EXCEPT !.kind = "None"]

IdleFrame ==
    [pc |-> "idle", i |-> 0, local |-> NoneList,
     parameter_container |-> None, domain |-> None,
     variables |-> None, parameters |-> None,
     log |-> <<>>, before |-> EmptyContainers, overlapped |-> FALSE,
     outcome |-> "none", result |-> NoResult, error |-> NoError]

\* A call made by the activation, with the arguments it was made with.
Event(op, a, idx, ref, status, seen, force) ==
    [op |-> op, idx |-> idx, ref |-> ref, status |-> status, seen |-> seen,
     force |-> force, parameter_container |-> a.parameter_container,
     domain |-> a.domain, variables |-> a.variables, parameters |-> a.parameters]

\* self.validation_parameter_builders or []
validation_parameter_builders_as_is(l) == l

validation_parameter_builders_or_empty(l) ==
    IF Truthy(l) THEN l ELSE ListOf(<<>>)

\* force_batch_data=False
force_batch_data_forced == TRUE

force_batch_data == FALSE

\* for validation_parameter_builder in validation_parameter_builders:
\* the loop is over once every element has been visited
LoopDoneBeforeLast(f) == f.i >= Len(f.local.items)

LoopDone(f) == f.i > Len(f.local.items)

\* the element the loop visits in its i-th iteration
NextDependencyReversed(f) == f.local.items[Len(f.local.items) + 1 - f.i]

NextDependency(f) == f.local.items[f.i]

\* parameter_container=parameter_container: the store the dependency writes
BuildParametersOtherContainer(f) ==
    CHOOSE c \in Containers : c # f.parameter_container

BuildParametersContainer(f) == f.parameter_container

\* After the propagation call returns, the same iteration goes on to the
\* dependency's build_parameters (lines 112-118).
AfterPropagateSkipBuild(f) == [f EXCEPT !.i = @ + 1, !.pc = "resolve"]

AfterPropagate(f) == [f EXCEPT !.pc = "build_parameters"]

\* The arguments handed to the dependency's build_parameters (lines 118-123)
BuildParametersArgsDropOptional(f) ==
    [parameter_container |-> BuildParametersContainer(f), domain |-> f.domain,
     variables |-> None, parameters |-> None]

BuildParametersArgs(f) ==
    [parameter_container |-> BuildParametersContainer(f), domain |-> f.domain,
     variables |-> f.variables, parameters |-> f.parameters]

\* The arguments handed to the construction step (lines 95-97); it is not
\* handed the parameter_container.
BuildArgs(f) ==
    [parameter_container |-> None, domain |-> f.domain,
     variables |-> f.variables, parameters |-> f.parameters]

\* The containers after a build_parameters call with arguments a and outcome
\* r: what the dependency wrote stays written, whether or not it raised;
\* nothing in lines 111-123 restores the container.
StoreRolledBackOnRaise(cs, f, a, r) ==
    IF r.raised THEN f.before
    ELSE [cs EXCEPT ![a.parameter_container][a.domain] = r.cell]

StoreAfterBuildParameters(cs, f, a, r) ==
    [cs EXCEPT ![a.parameter_container][a.domain] = r.cell]

\* An exception raised by build_parameters is not caught in
\* _resolve_validation_dependencies nor in build_expectation_configuration:
\* the activation ends with it.
RaiseSwallowed(f, err) == [f EXCEPT !.i = @ + 1, !.pc = "resolve"]

Raise(f, err) == [f EXCEPT !.pc = "done", !.outcome = "raised", !.error = err]

\* set_batch_list_or_batch_request_on_builder(builder=validation_parameter_builder,
\*     batch_list=self.batch_list, batch_request=self.batch_request,
\*     force_batch_data=False): the objects after the call
PropagateOntoSelf(b, ds, ref) ==
    [builder |-> set_batch_list_or_batch_request_on_builder(
                     b, ds[ref].batch_list, ds[ref].batch_request, force_batch_data),
     deps |-> ds]

PropagateOntoWithoutBatchList(b, ds, ref) ==
    [builder |-> b,
     deps |-> [ds EXCEPT ![ref] = set_batch_list_or_batch_request_on_builder(
                   ds[ref], None, b.batch_request, force_batch_data)]]

PropagateOnto(b, ds, ref) ==
    [builder |-> b,
     deps |-> [ds EXCEPT ![ref] = set_batch_list_or_batch_request_on_builder(
                   ds[ref], b.batch_list, b.batch_request, force_batch_data)]]

-----------------------------------------------------------------------------
(* The construction step *)

\* The override of the Concrete test class: reads the resolved min_value and
\* max_value for the Domain from the shared store and emits them as kwargs,
\* with the builder's assertion type and its assertion-specific argument.
ConcreteBuild(b, cell) ==
    [kind |-> "ExpectationConfiguration",
     expectation_type |-> b.expectation_type,
     min_value |-> cell["min_value"], max_value |-> cell["max_value"],
     mostly |-> b.extras["mostly"]]

\* ExpectationConfigurationBuilder._build_expectation_configuration: the body
\* of the base method is "pass", so a call that reaches it returns None.
base_build_expectation_configuration == [raised |-> FALSE, result |-> NoneResult]

\* self._build_expectation_configuration(domain=..., variables=..., parameters=...)
\* dispatched on the class of self
DispatchBuild(b, cell) ==
    IF b.cls = "Concrete"
    THEN [raised |-> FALSE, result |-> ConcreteBuild(b, cell)]
    ELSE base_build_expectation_configuration

-----------------------------------------------------------------------------
(* Actions *)

NoPassActive == \A q \in Passes : frame[q].pc = "idle"

\* An activation that has started and not yet ended.
Running(f) == f.pc \in {"resolve", "build_parameters"}

\* Whether an activation that starts on container c does so while another
\* one is still running on that container (nothing in lines 81-123 locks).
StartsDuringAnother(p, c) ==
    \E q \in Passes \ {p} :
        Running(frame[q]) /\ frame[q].parameter_container = c

\* build_expectation_configuration is entered and _resolve_validation_dependencies
\* binds its local list (lines 81-93, 106-108). Iterating None raises TypeError.
Enter(p, c, d, v, prm) ==
    LET l == validation_parameter_builders_or_empty(
                 builder.validation_parameter_builders)
        f == [IdleFrame EXCEPT
                 !.pc = "resolve", !.i = 1, !.local = l,
                 !.parameter_container = c, !.domain = d,
                 !.variables = v, !.parameters = prm,
                 !.before = containers, !.outcome = "running",
                 !.overlapped = StartsDuringAnother(p, c)]
    IN  /\ builder.state = "constructed"
        /\ frame[p].pc = "idle"
        /\ calls < MaxCalls
        /\ calls' = calls + 1
        /\ frame' = [q \in Passes |->
                        IF q = p
                        THEN (IF l.isNone THEN Raise(f, <<"TypeError", 0>>) ELSE f)
                        ELSE IF Running(frame[q]) /\ frame[q].parameter_container = c
                        THEN [frame[q] EXCEPT !.overlapped = TRUE]
                        ELSE frame[q]]
        /\ UNCHANGED <<builder, deps, containers, serialized>>

\* A caller that runs each pass to completion before starting the next one.
Call(p, c, d, v, prm) ==
    /\ NoPassActive
    /\ Enter(p, c, d, v, prm)

\* One iteration, first half: data-source propagation (lines 111-117).
Propagate(p) ==
    LET f   == frame[p]
        ref == NextDependency(f)
        o   == PropagateOnto(builder, deps, ref)
    IN  /\ f.pc = "resolve"
        /\ ~LoopDone(f)
        /\ builder' = o.builder
        /\ deps' = o.deps
        /\ frame' = [frame EXCEPT ![p] =
              [AfterPropagate(f) EXCEPT
                        !.log = Append(@, Event("propagate", f, f.i, ref,
                                    "returned", None, force_batch_data))]]
        /\ UNCHANGED <<containers, serialized, calls>>

\* One iteration, second half: the dependency's build_parameters (lines 118-123).
BuildParameters(p) ==
    LET f   == frame[p]
        ref == NextDependency(f)
        a   == BuildParametersArgs(f)
        c   == a.parameter_container
        r   == build_parameters(deps[ref].kind, containers[c][a.domain])
        ev  == Event("build_parameters", a,
                     f.i, ref, IF r.raised THEN "raised" ELSE "returned",
                     r.seen, FALSE)
        g   == [f EXCEPT !.log = Append(@, ev)]
    IN  /\ f.pc = "build_parameters"
        /\ containers' = StoreAfterBuildParameters(containers, f, a, r)
        /\ frame' = [frame EXCEPT ![p] =
              IF r.raised THEN Raise(g, <<"ParameterBuilderError", ref>>)
              ELSE [g EXCEPT !.i = @ + 1, !.pc = "resolve"]]
        /\ UNCHANGED <<builder, deps, serialized, calls>>

\* The loop is exhausted: the construction step runs and its value is
\* returned (lines 95-97).
ConstructionStep(p) ==
    LET f == frame[p]
        a == BuildArgs(f)
        r == DispatchBuild(builder, containers[f.parameter_container][a.domain])
        g == [f EXCEPT !.log = Append(@, Event("construct", a, 0, 0,
                             IF r.raised THEN "raised" ELSE "returned",
                             None, FALSE))]
    IN  /\ f.pc = "resolve"
        /\ LoopDone(f)
        /\ frame' = [frame EXCEPT ![p] =
              IF r.raised THEN Raise(g, <<"NotImplementedError", 0>>)
              ELSE [g EXCEPT !.pc = "done", !.outcome = "returned",
                             !.result = r.result]]
        /\ UNCHANGED <<builder, deps, containers, serialized, calls>>

\* The caller takes the result (or the exception); the activation is gone.
Return(p) ==
    /\ frame[p].pc = "done"
    /\ frame' = [frame EXCEPT ![p] = IdleFrame]
    /\ UNCHANGED <<builder, deps, containers, serialized, calls>>

-----------------------------------------------------------------------------
(* Serialization *)

\* Builder.exclude_field_names
BuilderExcludeFieldNames == {"batch_list", "batch_request", "data_context"}

\* exclude_field_names = Builder.exclude_field_names | {"validation_parameter_builders"}
exclude_field_names_replaced == {"validation_parameter_builders"}

exclude_field_names ==
    BuilderExcludeFieldNames \cup {"validation_parameter_builders"}

FieldNames == {"expectation_type", "validation_parameter_builders",
               "batch_list", "batch_request", "data_context"} \cup ExtraNames

FieldValue(b, k) ==
    IF k = "expectation_type" THEN b.expectation_type
    ELSE IF k = "validation_parameter_builders"
         THEN (IF b.validation_parameter_builders.isNone THEN None ELSE "<list>")
    ELSE IF k = "batch_list" THEN b.batch_list
    ELSE IF k = "batch_request" THEN b.batch_request
    ELSE IF k = "data_context" THEN b.data_context
    ELSE b.extras[k]

NotSerialized == [k \in FieldNames |-> "<no output>"]

\* Builder.to_dict: every field the instance has, but the excluded names
to_dict(b) ==
    [k \in FieldNames |->
        IF k \in exclude_field_names \/ FieldValue(b, k) = Absent
        THEN Absent ELSE FieldValue(b, k)]

Serialize ==
    /\ builder.state = "constructed"
    /\ serialized = NotSerialized
    /\ serialized' = to_dict(builder)
    /\ UNCHANGED <<builder, deps, containers, frame, calls>>

-----------------------------------------------------------------------------
(* Specifications *)

Init ==
    /\ builder = NoBuilder
    /\ deps = <<>>
    /\ containers = EmptyContainers
    /\ frame = [p \in Passes |-> IdleFrame]
    /\ serialized = NotSerialized
    /\ calls = 0

\* The protocol: a builder with ordinary extra arguments, called in sequence.
Next ==
    \/ \E cls \in Classes, et \in ExpectationTypes, cfgs \in ConfigLists,
          bl \in BatchLists, br \in BatchRequests, kw \in PlainKwargs :
          New(cls, et, cfgs, bl, br, None, kw)
    \/ \E c \in Containers, d \in Domains, a \in OptionalArgs :
          Call(MainPass, c, d, a[1], a[2])
    \/ Propagate(MainPass)
    \/ BuildParameters(MainPass)
    \/ ConstructionStep(MainPass)
    \/ Return(MainPass)

Spec == Init /\ [][Next]_vars

\* Two threads that call the same builder with no coordination: a call may
\* start while another is between any two of its steps.
NextInterleaved ==
    \/ \E cfgs \in ConfigLists, et \in ExpectationTypes :
          New("Concrete", et, cfgs, None, None, None, NoKwargs)
    \/ \E p \in Passes, c \in Containers, d \in Domains :
          Enter(p, c, d, None, None)
    \/ \E p \in Passes : Propagate(p)
    \/ \E p \in Passes : BuildParameters(p)
    \/ \E p \in Passes : ConstructionStep(p)
    \/ \E p \in Passes : Return(p)

SpecInterleaved == Init /\ [][NextInterleaved]_vars

\* Construction with every kind of extra argument, and serialization.
NextInit ==
    \/ \E cls \in Classes, et \in ExpectationTypes, cfgs \in ConfigLists,
          bl \in BatchLists, br \in BatchRequests, dc \in DataContexts,
          kw \in AllKwargs :
          New(cls, et, cfgs, bl, br, dc, kw)
    \/ Serialize

SpecInit == Init /\ [][NextInit]_vars

-----------------------------------------------------------------------------
(* Properties *)

Declared == builder.validation_parameter_builders.items
IsBuild(e) == e.op = "build_parameters"
IsPropagate(e) == e.op = "propagate"
IsConstruct(e) == e.op = "construct"
BuildEvents(f) == SelectSeq(f.log, IsBuild)
Indexes(s) == 1..Len(s)
Active(p) == frame[p].pc # "idle"
KindOf(ref) == deps[ref].kind

\* C1: whenever the construction step has been invoked in a call, every
\* validation parameter builder of the declared list had its build_parameters
\* invoked, and returned, earlier in that same call.
C1_ResolutionBeforeConstruction ==
    \A p \in Passes : \A n \in Indexes(frame[p].log) :
        IsConstruct(frame[p].log[n]) =>
            \A j \in Indexes(Declared) :
                \E m \in 1..(n - 1) :
                    /\ IsBuild(frame[p].log[m])
                    /\ frame[p].log[m].ref = Declared[j]
                    /\ frame[p].log[m].status = "returned"

C1_Witness ==
    /\ frame[MainPass].pc = "done"
    /\ Len(Declared) >= 2
    /\ \E n \in Indexes(frame[MainPass].log) : IsConstruct(frame[MainPass].log[n])

\* C2: in one call the build_parameters invocations follow the declared list:
\* the n-th invocation is of the n-th declared dependency, none is invoked
\* twice, a call that returns has invoked all of them, and a reader that runs
\* after a writer of the same call sees the written (non-default) value.
C2_DeclaredOrder ==
    \A p \in Passes :
        LET bp == BuildEvents(frame[p])
        IN  /\ Len(bp) <= Len(Declared)
            /\ \A n \in Indexes(bp) :
                  /\ bp[n].idx = n
                  /\ bp[n].ref = Declared[n]
                  /\ (KindOf(bp[n].ref) = "reader"
                        /\ \E m \in 1..(n - 1) : KindOf(bp[m].ref) = "writer")
                     => bp[n].seen = "0"
            /\ frame[p].outcome = "returned" => Len(bp) = Len(Declared)

C2_Witness ==
    /\ frame[MainPass].pc = "done"
    /\ Len(Declared) = 2
    /\ KindOf(Declared[1]) = "writer" /\ KindOf(Declared[2]) = "reader"
    /\ Len(BuildEvents(frame[MainPass])) = 2
    /\ BuildEvents(frame[MainPass])[2].seen = "0"

\* C3: a build_parameters that raised is the last thing its call did: the call
\* has ended with that same error, no later dependency was propagated to or
\* invoked, the construction step was not invoked and there is no result.
C3_FailureAborts ==
    \A p \in Passes : \A n \in Indexes(frame[p].log) :
        (IsBuild(frame[p].log[n]) /\ frame[p].log[n].status = "raised") =>
            /\ n = Len(frame[p].log)
            /\ frame[p].pc = "done"
            /\ frame[p].outcome = "raised"
            /\ frame[p].error = <<"ParameterBuilderError", frame[p].log[n].ref>>
            /\ frame[p].result = NoResult

C3_Witness ==
    /\ frame[MainPass].pc = "done"
    /\ Len(Declared) = 2
    /\ Len(BuildEvents(frame[MainPass])) = 1
    /\ BuildEvents(frame[MainPass])[1].status = "raised"

RoundTripCall(p) ==
    /\ builder.state = "constructed"
    /\ builder.cls = "Concrete"
    /\ Len(Declared) = 1 /\ KindOf(Declared[1]) = "writer"
    /\ frame[p].pc = "done"
    /\ frame[p].variables = None /\ frame[p].parameters = None

\* C4: round trip. A Concrete builder with the single dependency "writer"
\* (min_value = 0, max_value = 100), called with a container and a Domain and
\* neither variables nor parameters, returns an ExpectationConfiguration whose
\* kwargs hold min_value = 0 and max_value = 100.
C4_RoundTrip ==
    \A p \in Passes : RoundTripCall(p) =>
        /\ frame[p].outcome = "returned"
        /\ frame[p].result.kind = "ExpectationConfiguration"
        /\ frame[p].result.min_value = "0"
        /\ frame[p].result.max_value = "100"

C4_Witness == RoundTripCall(MainPass) /\ frame[MainPass].domain = "domain_D"

NoDependencies ==
    /\ builder.state = "constructed"
    /\ ~Truthy(builder.validation_parameter_builders)

\* C5: with an empty or absent declared list, a call makes no propagation and
\* no build_parameters call, leaves every container as it was when the call
\* started, and ends by returning what the construction step returned.
C5_EmptyListIsNoOp ==
    \A p \in Passes : (NoDependencies /\ Active(p)) =>
        /\ \A n \in Indexes(frame[p].log) : IsConstruct(frame[p].log[n])
        /\ containers = frame[p].before
        /\ frame[p].pc = "done" =>
              /\ frame[p].outcome = "returned"
              /\ Len(frame[p].log) = 1

C5_Witness ==
    /\ NoDependencies
    /\ builder.validation_parameter_builders.isNone
    /\ frame[MainPass].pc = "done"
    /\ calls >= 2

\* C6 (as the specification states it): a construction step that reaches the
\* base implementation, for want of a concrete one, ends the call with an
\* error.
C6_BaseBuildRaises ==
    \A p \in Passes : \A n \in Indexes(frame[p].log) :
        (IsConstruct(frame[p].log[n]) /\ builder.cls # "Concrete") =>
            frame[p].outcome = "raised"

\* C7: every propagation is requested with force_batch_data false, and a
\* dependency that has its own batch list or batch request keeps exactly
\* that, whatever calls have been made.
C7_NoForcedOverride ==
    /\ \A p \in Passes : \A n \in Indexes(frame[p].log) :
          IsPropagate(frame[p].log[n]) => frame[p].log[n].force = FALSE
    /\ \A i \in DOMAIN deps :
          (OwnBatchList(deps[i].kind) # None \/ OwnBatchRequest(deps[i].kind) # None)
          => /\ deps[i].batch_list = OwnBatchList(deps[i].kind)
             /\ deps[i].batch_request = OwnBatchRequest(deps[i].kind)

C7_Witness ==
    /\ builder.batch_list # None
    /\ \E n \in Indexes(frame[MainPass].log) :
          /\ IsPropagate(frame[MainPass].log[n])
          /\ OwnBatchRequest(KindOf(frame[MainPass].log[n].ref)) # None
    /\ calls >= 2

\* C8: every extra keyword argument of a construction that succeeded reads
\* back, under its own name, as the value that was passed.
C8_KwargsReadBack ==
    builder.state = "constructed" =>
        \A k \in KwargNames :
            builder.given_kwargs[k] # NotGiven =>
                getattr(builder, k) = builder.given_kwargs[k]

C8_Witness ==
    /\ builder.state = "constructed"
    /\ builder.given_kwargs["mostly"] # NotGiven
    /\ builder.given_kwargs["_expectation_type"] # NotGiven

\* C9: the serialized builder omits the validation dependency list and every
\* field the base Builder excludes, and holds the assertion type name and
\* every assertion-specific extra argument.
C9_SerializationExcludes ==
    serialized # NotSerialized =>
        /\ serialized["validation_parameter_builders"] = Absent
        /\ \A k \in BuilderExcludeFieldNames : serialized[k] = Absent
        /\ serialized["expectation_type"] = builder.expectation_type
        /\ serialized["expectation_type"] # Absent
        /\ \A k \in ExtraNames :
              builder.given_kwargs[k] # NotGiven =>
                  serialized[k] = builder.given_kwargs[k]

C9_Witness ==
    /\ serialized # NotSerialized
    /\ ~builder.validation_parameter_builders.isNone
    /\ builder.batch_list # None
    /\ builder.given_kwargs["mostly"] # NotGiven

\* C10: once constructed, no step changes the builder: its assertion type,
\* declared list, batch list, batch request and extra arguments stay as they
\* are through every call, returning or raising.
C10_BuilderUnchanged ==
    [][builder.state = "constructed" => builder' = builder]_vars

C10_Witness ==
    /\ builder.state = "constructed"
    /\ builder.extras["mostly"] # Absent
    /\ Len(Declared) = 2
    /\ calls >= 2
    /\ frame[MainPass].pc = "done"
    /\ frame[MainPass].outcome = "raised"
    /\ containers # EmptyContainers
    /\ \E i \in DOMAIN deps : deps[i].batch_list = "batch_list_A"

ListFromConfigs(cfgs) ==
    IF cfgs.isNone THEN NoneList ELSE ListOf([i \in 1..Len(cfgs.items) |-> i])

\* C11 (as the specification states it): after a construction that succeeded,
\* whatever extra arguments were passed, the expectation_type accessor returns
\* the expectation_type argument and the validation_parameter_builders
\* accessor returns the list made from validation_parameter_builder_configs.
C11_AccessorsAsGiven ==
    builder.state = "constructed" =>
        /\ expectation_type(builder) = builder.given_expectation_type
        /\ validation_parameter_builders(builder) =
               ListFromConfigs(builder.given_configs)

\* C12: in one call, each build_parameters comes right after the propagation
\* onto the same dependency, and the propagation onto a later dependency comes
\* right after the returned build_parameters of the dependency before it.
C12_PropagateThenBuildPerDependency ==
    \A p \in Passes : \A n \in Indexes(frame[p].log) :
        LET e == frame[p].log[n]
        IN  /\ IsBuild(e) =>
                  /\ n > 1
                  /\ IsPropagate(frame[p].log[n - 1])
                  /\ frame[p].log[n - 1].idx = e.idx
                  /\ frame[p].log[n - 1].ref = e.ref
            /\ IsPropagate(e) =>
                  \/ n = 1 /\ e.idx = 1
                  \/ /\ n > 1
                     /\ IsBuild(frame[p].log[n - 1])
                     /\ frame[p].log[n - 1].idx = e.idx - 1
                     /\ frame[p].log[n - 1].status = "returned"

C12_Witness ==
    /\ frame[MainPass].pc = "build_parameters"
    /\ Len(frame[MainPass].log) = 3
    /\ IsPropagate(frame[MainPass].log[3])
    /\ frame[MainPass].log[3].idx = 2

\* C13: every build_parameters of a call is handed the caller's
\* parameter_container, domain, variables and parameters, the construction
\* step the caller's domain, variables and parameters, and no entry of another
\* container or another Domain changes during the call.
C13_ArgumentsPassThrough ==
    \A p \in Passes :
        /\ \A n \in Indexes(frame[p].log) :
              LET e == frame[p].log[n]
              IN  /\ IsBuild(e) =>
                        /\ e.parameter_container = frame[p].parameter_container
                        /\ e.domain = frame[p].domain
                        /\ e.variables = frame[p].variables
                        /\ e.parameters = frame[p].parameters
                  /\ IsConstruct(e) =>
                        /\ e.domain = frame[p].domain
                        /\ e.variables = frame[p].variables
                        /\ e.parameters = frame[p].parameters
        /\ (Active(p) /\ \A q \in Passes \ {p} : ~Active(q)) =>
              \A c \in Containers, d \in Domains :
                  (c # frame[p].parameter_container \/ d # frame[p].domain)
                      => containers[c][d] = frame[p].before[c][d]

C13_Witness ==
    /\ frame[MainPass].pc = "done"
    /\ frame[MainPass].outcome = "returned"
    /\ frame[MainPass].variables # None
    /\ frame[MainPass].parameters # None
    /\ frame[MainPass].parameter_container = "container_2"
    /\ frame[MainPass].domain = "domain_E"
    /\ Len(BuildEvents(frame[MainPass])) = 2
    /\ containers["container_2"]["domain_E"] # EmptyCell

NoSource == <<"none", None>>
SourceOfBuilder ==
    IF builder.batch_list # None THEN <<"batch_list", builder.batch_list>>
    ELSE IF builder.batch_request # None
         THEN <<"batch_request", builder.batch_request>>
    ELSE NoSource

\* C14: a dependency with no data of its own that has been propagated onto
\* computes from the builder's batch list when the builder has one (also when
\* it has a batch request too), and from the builder's batch request only
\* when the builder has no batch list.
C14_BatchListTakesPrecedence ==
    \A p \in Passes : \A n \in Indexes(frame[p].log) :
        LET e == frame[p].log[n]
        IN  (IsPropagate(e) /\ OwnBatchList(KindOf(e.ref)) = None
                            /\ OwnBatchRequest(KindOf(e.ref)) = None) =>
                /\ EffectiveSource(deps[e.ref]) = SourceOfBuilder
                /\ builder.batch_list # None =>
                      EffectiveSource(deps[e.ref])[1] = "batch_list"
                /\ EffectiveSource(deps[e.ref])[1] = "batch_request" =>
                      builder.batch_list = None

C14_Witness ==
    /\ builder.batch_list # None
    /\ builder.batch_request # None
    /\ \E n \in Indexes(frame[MainPass].log) :
          /\ IsPropagate(frame[MainPass].log[n])
          /\ KindOf(frame[MainPass].log[n].ref) = "writer"
          /\ EffectiveSource(deps[frame[MainPass].log[n].ref])
                 = <<"batch_list", "batch_list_A">>

\* What the returned build_parameters calls of an activation last wrote under
\* a key, in the order they were made.
NotWritten == "<not written>"
WritesKey(kind, key) ==
    \/ kind = "writer"
    \/ kind = "reader" /\ key = "max_value"
ValueWritten(e, key) ==
    IF KindOf(e.ref) = "writer"
    THEN (IF key = "min_value" THEN "0" ELSE "100")
    ELSE e.seen
WritingEvents(f, key) ==
    {n \in Indexes(f.log) : /\ IsBuild(f.log[n])
                            /\ f.log[n].status = "returned"
                            /\ WritesKey(KindOf(f.log[n].ref), key)}
LastWritten(f, key) ==
    IF WritingEvents(f, key) = {} THEN NotWritten
    ELSE LET n == CHOOSE m \in WritingEvents(f, key) :
                      \A k \in WritingEvents(f, key) : k <= m
         IN  ValueWritten(f.log[n], key)
CellOf(f) == containers[f.parameter_container][f.domain]
FailedInResolution(f) ==
    /\ f.pc = "done"
    /\ f.outcome = "raised"
    /\ f.error[1] = "ParameterBuilderError"

\* C15: after a call has failed in a dependency's build_parameters, every key
\* an earlier dependency of that call wrote still holds the value written,
\* and the other keys hold what they held when the call started.
C15_NoRollback ==
    \A p \in Passes :
        (FailedInResolution(frame[p]) /\ \A q \in Passes \ {p} : ~Active(q)) =>
            \A key \in Keys :
                CellOf(frame[p])[key] =
                    IF LastWritten(frame[p], key) # NotWritten
                    THEN LastWritten(frame[p], key)
                    ELSE frame[p].before[frame[p].parameter_container]
                                        [frame[p].domain][key]

C15_Witness ==
    /\ FailedInResolution(frame[MainPass])
    /\ calls = 1
    /\ LastWritten(frame[MainPass], "min_value") = "0"
    /\ CellOf(frame[MainPass])["min_value"] = "0"
    /\ containers # frame[MainPass].before

LastDeclared == Declared[Len(Declared)]
SeenBy(f, ref) ==
    LET n == CHOOSE m \in Indexes(f.log) : IsBuild(f.log[m]) /\ f.log[m].ref = ref
    IN  f.log[n].seen
BothWriteMaxValue(f) ==
    /\ builder.state = "constructed"
    /\ builder.cls = "Concrete"
    /\ f.pc = "done"
    /\ f.outcome = "returned"
    /\ Len(Declared) >= 2

\* C16: when two or more dependencies of the builder write max_value for the
\* Domain, the max_value the construction step reads is the one written by
\* the dependency that is last in the declared list.
C16_LastWriteWins ==
    \A p \in Passes :
        (BothWriteMaxValue(frame[p]) /\ \A q \in Passes \ {p} : ~Active(q)) =>
            frame[p].result.max_value =
                IF KindOf(LastDeclared) = "writer" THEN "100"
                ELSE SeenBy(frame[p], LastDeclared)

C16_Witness ==
    /\ BothWriteMaxValue(frame[MainPass])
    /\ KindOf(Declared[1]) = "writer"
    /\ KindOf(LastDeclared) = "reader"
    /\ frame[MainPass].result.max_value = "0"

ResultValue(res, key) ==
    IF key = "min_value" THEN res.min_value ELSE res.max_value
ReturnedConfiguration(f) ==
    /\ builder.state = "constructed"
    /\ builder.cls = "Concrete"
    /\ f.pc = "done"
    /\ f.outcome = "returned"

\* C17: with calls of two threads interleaved and no locking, a call that ran
\* on its container from start to end with no other call running on that
\* container returns, for every key its own dependencies wrote, the value they
\* last wrote. (The witness is the other half: a call that overlapped with
\* another on the same container and Domain returns a max_value that is not
\* the one its own dependencies last wrote.)
C17_RunToCompletionSeesOwnWrites ==
    \A p \in Passes :
        (ReturnedConfiguration(frame[p]) /\ ~frame[p].overlapped) =>
            \A key \in Keys :
                LastWritten(frame[p], key) # NotWritten =>
                    ResultValue(frame[p].result, key) = LastWritten(frame[p], key)

C17_Witness ==
    \E p \in Passes :
        /\ ReturnedConfiguration(frame[p])
        /\ frame[p].overlapped
        /\ LastWritten(frame[p], "max_value") # NotWritten
        /\ frame[p].result.max_value # LastWritten(frame[p], "max_value")

====
